---- MODULE Spec2Model ----
(***************************************************************************)
(* Model of the GeM bids harvester, src/Archive/daily_gem_pdf_scraper.py:  *)
(* the page loop of scrape_and_stream, the restart wrapper                 *)
(* _run_scrape_with_retries, the compaction dedupe_and_write_final_json,   *)
(* the artifact uploader upload_pdf_to_supabase, and navigate_next and     *)
(* wait_for_page_change step by step.                                      *)
(***************************************************************************)
EXTENDS Integers, Sequences, FiniteSets, TLC

(* ---------------- bounds of the simulated listing ---------------- *)
\* cards per listing page
PageLen == 2
\* environment faults in one run: failed reads, PDF and log-write failures, navigation
\* that fails or does not reach the next page, exceptions
MaxFaults == 2
\* uploader: calls of upload_pdf_to_supabase in a row, and distinct PDF payloads
MaxCalls == 2
NumBlobs == 2
\* compaction: lines of an arbitrary temporary log, and identifiers in them
MaxLogLen == 3
NumIds == 2

(* ---------------- program configuration ---------------- *)
\* env-configurable in the source (defaults 5000, 3, 6); small values here
MAX_PAGES == 3
BROWSER_RESTART_ATTEMPTS == 2
CONSECUTIVE_NAV_FAILURES_BEFORE_ABORT == 2
PARSE_FAILURE_SAMPLE_LIMIT == 3
\* attempts of the HEAD probe and of the POST (range(1, 4), lines 225 and 277)
HEAD_ATTEMPTS == 3
UPLOAD_ATTEMPTS == 3
\* pages of the listing whose cards are chosen freely; the pages after them hold
\* older bids only
NumPages == MAX_PAGES - 1
\* the values of MIN_PAGES (env-configurable, default 1200) a run is started with
MinPagesValues == 1..NumPages
\* the date given on the command line, as a day number
target_date == 5
\* datetime values are day * SlotsPerDay + time-of-day slot
SlotsPerDay == 2

\* Python's None is the empty sequence, a present value x the sequence <<x>>
None == <<>>
Some(x) == <<x>>

VARIABLES
    listing,                  \* the site's listing: page -> sequence of cards
    MIN_PAGES,                \* minimum pages to scan before the early stop is allowed
    attempt,                  \* _run_scrape_with_retries: loop variable
    pc,                       \* position in main / scrape_and_stream
    page_number,
    shown,                    \* index of the listing page the browser displays
    idx,                      \* i of "for i in range(count)", 1-based
    seen,
    parse_failures,
    parse_failure_samples,
    passed_target_date,
    consecutive_nav_failures,
    ndjson_exists,            \* the temporary NDJSON file exists
    ndjson,                   \* its lines
    stats,                    \* what scrape_and_stream returned
    final,                    \* the compacted document written by main
    unparsed,                 \* history: cards whose start date failed to parse (this attempt)
    clean,                    \* history: every read, navigation and verification succeeded
    faults,                   \* environment faults so far
    last,                     \* history: what the last step did
    store,                    \* storage: x-meta-sha256 of the object at object_name
    u_pc,                     \* position in upload_pdf_to_supabase
    u_calls,                  \* calls made so far
    u_bytes,                  \* pdf_bytes of the current call
    u_attempt,                \* loop variable of the HEAD or POST loop
    u_heads,                  \* history: HEAD responses of the current call
    u_resps,                  \* history: POST responses of the current call
    u_ret,                    \* how the current call ended
    u_prev,                   \* history: the previous call
    raised,                   \* history: attempts of scrape_and_stream that raised
    compacted,                \* history: the logs compacted so far, with their payloads
    n_pc,                     \* position in navigate_next
    n_page,                   \* current_page_number of the call
    n_strategy,               \* the strategy navigate_next is at (0..4)
    n_tried,                  \* history: the strategies attempted, with their outcomes
    n_ret,                    \* what navigate_next returned
    w_pc,                     \* position in wait_for_page_change
    w_first_before,           \* first_before_text of the call
    w_waited,                 \* poll ticks done (waited / wait_interval_ms)
    w_obs,                    \* history: what each poll tick observed
    w_reload,                 \* history: outcome of the final reload
    w_ret,                    \* what wait_for_page_change returned
    sort_applied,             \* the listing was switched to "latest first" in this attempt
    k_keys                    \* object keys given to accepted identifiers

uploadVars == <<store, u_pc, u_calls, u_bytes, u_attempt, u_heads, u_resps, u_ret, u_prev>>
navVars == <<n_pc, n_page, n_strategy, n_tried, n_ret>>
waitVars == <<w_pc, w_first_before, w_waited, w_obs, w_reload, w_ret>>

vars == <<listing, MIN_PAGES, attempt, pc, page_number, shown, idx, seen, parse_failures,
          parse_failure_samples, passed_target_date, consecutive_nav_failures,
          ndjson_exists, ndjson, stats, final, unparsed, clean, faults, last, raised,
          compacted, sort_applied, k_keys, uploadVars, navVars, waitVars>>

(* ---------------- the listing ---------------- *)
Kinds == {"newer", "target", "older", "nodate", "ra"}

\* start_dt is the value parse_start_datetime returns for the card's raw text
StartOf(kind) ==
    CASE kind = "newer"  -> Some((target_date + 1) * SlotsPerDay + 1)
      [] kind = "target" -> Some(target_date * SlotsPerDay + 1)
      [] kind = "ra"     -> Some(target_date * SlotsPerDay)
      [] kind = "older"  -> Some((target_date - 1) * SlotsPerDay + 1)
      [] OTHER           -> None

\* a card: the a.bid_no_hover link text (bid_number), whether it holds "/B/",
\* and the parsed start datetime of its container text
CardAt(p, i, kind) ==
    [bid_number |-> (p - 1) * PageLen + i,
     is_bid     |-> kind # "ra",
     start_dt   |-> StartOf(kind)]

FeedLen == NumPages * PageLen

\* a latest-first feed cut at a and b, with the card at position x replaced by kind y
FeedKind(a, b, x, y, j) ==
    IF j = x THEN y
    ELSE IF j <= a THEN "newer"
    ELSE IF j <= b THEN "target"
    ELSE "older"

Listings ==
    { [p \in 1..NumPages |->
          [i \in 1..PageLen |-> CardAt(p, i, FeedKind(a, b, x, y, (p - 1) * PageLen + i))]] :
        a \in 0..FeedLen, b \in 0..FeedLen, x \in 0..FeedLen, y \in Kinds }

\* the cards of listing page p; pages past the modelled ones hold older bids only
PageAt(p) ==
    IF p <= NumPages THEN listing[p]
    ELSE [i \in 1..PageLen |-> CardAt(p, i, "older")]

(* ---------------- helpers of scrape_and_stream ---------------- *)
\* datetime.date(): the day of a datetime
DateOf(dt) == dt \div SlotsPerDay

\* datetime.isoformat(): the day and the time of day, written apart
IsoFormat(dt) == <<dt \div SlotsPerDay, dt % SlotsPerDay>>

\* the PDF bytes download_pdf fetches for a bid, and their digest
PdfBytes(bid) == bid
Sha256(bytes) == (bytes * 7 + 3) % 101

\* Verdict without the "sd != target_date" test
VerdictNewerAccepted(card, seenset) ==
    IF ~card.is_bid THEN "skip_ra"
    ELSE IF card.start_dt = None THEN "parse_failure"
    ELSE IF DateOf(card.start_dt[1]) < target_date THEN "older"
    ELSE IF card.bid_number \in seenset THEN "duplicate"
    ELSE "accept"

\* what the body of the for loop decides for one card (lines 706-765)
Verdict(card, seenset) ==
    IF ~card.is_bid THEN "skip_ra"
    ELSE IF card.start_dt = None THEN "parse_failure"
    ELSE IF DateOf(card.start_dt[1]) < target_date THEN "older"
    ELSE IF DateOf(card.start_dt[1]) # target_date THEN "skip_date"
    ELSE IF card.bid_number \in seenset THEN "duplicate"
    ELSE "accept"

\* outcomes of download_pdf + upload_pdf_to_supabase for one record
PdfOutcomes == {"uploaded", "unchanged", "failed"}

\* PdfFields with the except branch not resetting uploaded
PdfFieldsStale(outcome, bid) ==
    IF outcome = "failed"
    THEN [pdf_uploaded |-> TRUE, pdf_sha256 |-> None]
    ELSE [pdf_uploaded |-> (outcome = "uploaded"),
          pdf_sha256   |-> Some(Sha256(PdfBytes(bid)))]

\* uploaded, sha after the try/except around the PDF handling (lines 798-808)
PdfFields(outcome, bid) ==
    IF outcome = "failed"
    THEN [pdf_uploaded |-> FALSE, pdf_sha256 |-> None]
    ELSE [pdf_uploaded |-> (outcome = "uploaded"),
          pdf_sha256   |-> Some(Sha256(PdfBytes(bid)))]

\* bid_record as serialised into one NDJSON line (lines 777-816)
BidRecord(card, outcome) ==
    [page           |-> page_number,
     bid_number     |-> card.bid_number,
     start_datetime |-> IsoFormat(card.start_dt[1]),
     pdf_sha256     |-> PdfFields(outcome, card.bid_number).pdf_sha256,
     pdf_uploaded   |-> PdfFields(outcome, card.bid_number).pdf_uploaded]

\* parse_failure_samples after one more parse failure (lines 744-745)
AddSample(samples, raw) ==
    IF Len(samples) < PARSE_FAILURE_SAMPLE_LIMIT THEN Append(samples, raw) ELSE samples

\* EarlyStop with the page floor off by one
EarlyStopStrict == passed_target_date /\ page_number > MIN_PAGES

\* the early-stop test after a page (line 822)
EarlyStop == passed_target_date /\ page_number >= MIN_PAGES

\* the first a.bid_no_hover text of listing page p
FirstId(p) == Some(PageAt(p)[1].bid_number)

\* a text read from the page: None, or Some(t) with t = 0 for the empty string;
\* Truthy is Python's truth value of an Optional[str]
Truthy(text) == text # None /\ text[1] # 0

\* wait_for_page_change: the three signals of a poll tick, or the URL after the
\* final reload (lines 521-532, 564-566); line 525 tests "is None", the other
\* tests are truth values
WaitForPageChange(first_before, after_first, url_changed) ==
    \/ url_changed
    \/ first_before = None /\ Truthy(after_first)
    \/ Truthy(first_before) /\ Truthy(after_first) /\ after_first # first_before

\* NavAbort never giving up
NavAbortNever(failures) == FALSE

\* the "if not navigated" abort test (line 841)
NavAbort(failures) == failures >= CONSECUTIVE_NAV_FAILURES_BEFORE_ABORT

\* UniqueMap collecting the records in a list, without the "bn not in unique_map" test
RECURSIVE UniqueMapAll(_, _)
UniqueMapAll(lines, acc) ==
    IF lines = <<>> THEN acc
    ELSE LET rec == Head(lines)
             keep == rec.json /\ rec.bid_number # 0
         IN UniqueMapAll(Tail(lines), IF keep THEN Append(acc, rec) ELSE acc)

\* UniqueMap with a later record of an identifier replacing the earlier one
RECURSIVE UniqueMapLast(_, _)
UniqueMapLast(lines, acc) ==
    IF lines = <<>> THEN acc
    ELSE LET rec == Head(lines)
             keep == rec.json /\ rec.bid_number # 0
             known == \E k \in 1..Len(acc) : acc[k].bid_number = rec.bid_number
         IN UniqueMapLast(Tail(lines),
               IF ~keep THEN acc
               ELSE IF known
               THEN [k \in 1..Len(acc) |->
                        IF acc[k].bid_number = rec.bid_number THEN rec ELSE acc[k]]
               ELSE Append(acc, rec))

\* dedupe_and_write_final_json: the unique_map loop over the lines (lines 913-925);
\* a line is a record (json), or a blank or unparsable line; bid_number 0 stands for a
\* missing or empty bid_number; the map is kept in insertion order
RECURSIVE UniqueMap(_, _)
UniqueMap(lines, acc) ==
    IF lines = <<>> THEN acc
    ELSE LET rec == Head(lines)
             keep == /\ rec.json
                     /\ rec.bid_number # 0
                     /\ \A k \in 1..Len(acc) : acc[k].bid_number # rec.bid_number
         IN UniqueMap(Tail(lines), IF keep THEN Append(acc, rec) ELSE acc)

\* Payload leaving out the identifiers an earlier compaction already emitted
PayloadCarried(lines) ==
    LET emitted == UNION {{compacted[c].payload.bids[k].bid_number :
                               k \in 1..Len(compacted[c].payload.bids)} :
                             c \in 1..Len(compacted)}
        all == UniqueMap(lines, <<>>)
        final_bids == SelectSeq(all, LAMBDA rec : rec.bid_number \notin emitted)
    IN [record_count |-> Len(final_bids), bids |-> final_bids]

\* the payload written to the meta file (lines 927-929)
Payload(lines) ==
    LET final_bids == UniqueMap(lines, <<>>)
    IN [record_count |-> Len(final_bids), bids |-> final_bids]

NoStats == [seen_count |-> 0, parse_failures |-> 0, parse_failure_samples |-> <<>>, returned |-> FALSE]
NoFinal == [written |-> FALSE, record_count |-> 0, bids |-> <<>>]

\* history: the step just taken
Step(op) == [op |-> op, outcome |-> "uploaded", wrote |-> TRUE]

(* ---------------- the run ---------------- *)
\* locals of scrape_and_stream as set at its start (lines 647-650, 682-683)
FreshLocals ==
    /\ seen' = {}
    /\ parse_failures' = 0
    /\ parse_failure_samples' = <<>>
    /\ passed_target_date' = FALSE
    /\ page_number' = 1
    /\ consecutive_nav_failures' = 0
    /\ shown' = 1
    /\ idx' = 1
    /\ unparsed' = {}
    /\ clean' = TRUE
    /\ sort_applied' = FALSE

\* no call of the uploader yet
NoRet == [status |-> "none", uploaded |-> FALSE, sha |-> None]
UploadIdle ==
    /\ store = None
    /\ u_pc = "idle"
    /\ u_calls = 0
    /\ u_bytes = 0
    /\ u_attempt = 1
    /\ u_heads = <<>>
    /\ u_resps = <<>>
    /\ u_ret = NoRet
    /\ u_prev = [bytes |-> 0, ret |-> NoRet, posts |-> 0]

\* no call of navigate_next or wait_for_page_change on its own
NavIdle ==
    /\ n_pc = "idle"
    /\ n_page = 1
    /\ n_strategy = 0
    /\ n_tried = <<>>
    /\ n_ret = None
WaitIdle ==
    /\ w_pc = "idle"
    /\ w_first_before = None
    /\ w_waited = 0
    /\ w_obs = <<>>
    /\ w_reload = "none"
    /\ w_ret = None

\* main at position "at", for a given listing, MIN_PAGES and temporary log
RunStart(l, k, log_exists, log, at) ==
    /\ listing = l
    /\ MIN_PAGES = k
    /\ ndjson_exists = log_exists
    /\ ndjson = log
    /\ attempt = 1
    /\ pc = at
    /\ page_number = 1
    /\ shown = 1
    /\ idx = 1
    /\ seen = {}
    /\ parse_failures = 0
    /\ parse_failure_samples = <<>>
    /\ passed_target_date = FALSE
    /\ consecutive_nav_failures = 0
    /\ stats = NoStats
    /\ final = NoFinal
    /\ unparsed = {}
    /\ clean = TRUE
    /\ faults = 0
    /\ last = Step("init")
    /\ raised = 0
    /\ compacted = <<>>
    /\ sort_applied = FALSE
    /\ k_keys = {}

Init ==
    /\ \E l \in Listings, k \in MinPagesValues : RunStart(l, k, FALSE, <<>>, "setup")
    /\ UploadIdle
    /\ NavIdle
    /\ WaitIdle

\* the faults a step adds fit the budget
Fault(n) == faults + n <= MaxFaults /\ faults' = faults + n
Cost(b) == IF b THEN 1 ELSE 0

\* LogOnOpen with the file opened in mode "w"
LogOnOpenTruncated(log) == <<>>

\* line 654: open(ndjson_path, "a") keeps the lines the file holds
LogOnOpen(log) == log

\* lines 654-683: open the log for append, launch the browser, load the listing,
\* and set_sort_latest_start: the sort is applied when the "Sort by" control and
\* the "Bid Start Date: Latest First" option are found and clicked; every failure
\* in it is swallowed (lines 586-604) and the loop starts all the same
Setup ==
    /\ pc = "setup"
    /\ pc' = "scan"
    /\ ndjson_exists' = TRUE
    /\ ndjson' = LogOnOpen(ndjson)
    /\ \E applied \in BOOLEAN :
          /\ Fault(Cost(~applied))
          /\ sort_applied' = applied
    /\ last' = Step("setup")
    /\ UNCHANGED <<navVars, waitVars, uploadVars, k_keys, raised, compacted, listing, MIN_PAGES, attempt, page_number, shown, idx, seen, parse_failures,
                   parse_failure_samples, passed_target_date, consecutive_nav_failures,
                   stats, final, unparsed, clean>>

\* PassedAfter with the flag following the last card only
PassedAfterReset(v) == v = "older"

\* lines 750-751: passed_target_date is set by an older card and never cleared
PassedAfter(v) == passed_target_date \/ v = "older"

\* AfterCard without the break at an older card
AfterCardNoBreak(broke) ==
    IF idx = Len(PageAt(shown))
    THEN pc' = "page_end" /\ idx' = 1
    ELSE pc' = "scan" /\ idx' = idx + 1

\* after card idx: the next card, or the end of the for loop
AfterCard(broke) ==
    IF broke \/ idx = Len(PageAt(shown))
    THEN pc' = "page_end" /\ idx' = 1
    ELSE pc' = "scan" /\ idx' = idx + 1

\* one iteration of "for i in range(count)" (lines 693-819)
ScanCard ==
    /\ pc = "scan"
    /\ LET card == PageAt(shown)[idx] IN
       \E read_ok \in BOOLEAN, outcome \in PdfOutcomes, wrote \in BOOLEAN :
          LET v == IF read_ok THEN Verdict(card, seen) ELSE "read_error" IN
          /\ (v # "accept") => (outcome = "uploaded" /\ wrote)
          /\ Fault(Cost(~read_ok) + Cost(outcome # "uploaded") + Cost(~wrote))
          /\ last' = [op |-> v, outcome |-> outcome, wrote |-> wrote]
          /\ AfterCard(v = "older")
          /\ clean' = (clean /\ read_ok)
          /\ parse_failures' = IF v = "parse_failure" THEN parse_failures + 1 ELSE parse_failures
          /\ parse_failure_samples' =
                IF v = "parse_failure"
                THEN AddSample(parse_failure_samples, card.bid_number)
                ELSE parse_failure_samples
          /\ unparsed' = IF v = "parse_failure" THEN unparsed \cup {<<shown, idx>>} ELSE unparsed
          /\ passed_target_date' = PassedAfter(v)
          /\ seen' = IF v = "accept" THEN seen \cup {card.bid_number} ELSE seen
          /\ ndjson' = IF v = "accept" /\ wrote
                       THEN Append(ndjson, [json |-> TRUE] @@ BidRecord(card, outcome))
                       ELSE ndjson
    /\ UNCHANGED <<navVars, waitVars, uploadVars, sort_applied, k_keys, raised, compacted, listing, MIN_PAGES, attempt, page_number, shown, consecutive_nav_failures,
                   ndjson_exists, stats, final>>

\* LeaveLoop starting the setup over instead of going on to the return
LeaveLoopRaise(why) ==
    /\ pc' = "setup"
    /\ last' = Step(why)

\* the loop is left: browser.close() and the return statement follow
LeaveLoop(why) ==
    /\ pc' = "exited"
    /\ last' = Step(why)

\* lines 822-824: the early stop
StopEarly ==
    /\ pc = "page_end"
    /\ EarlyStop
    /\ LeaveLoop("stop")
    /\ UNCHANGED <<navVars, waitVars, uploadVars, sort_applied, k_keys, raised, compacted, listing, MIN_PAGES, attempt, page_number, shown, idx, seen, parse_failures,
                   parse_failure_samples, passed_target_date, consecutive_nav_failures,
                   ndjson_exists, ndjson, stats, final, unparsed, clean, faults>>

\* lines 836-846: navigate_next found no usable path (every strategy failed)
NavFail ==
    /\ pc = "page_end"
    /\ ~EarlyStop
    /\ Fault(1)
    /\ consecutive_nav_failures' = consecutive_nav_failures + 1
    /\ clean' = FALSE
    /\ IF NavAbort(consecutive_nav_failures')
       THEN LeaveLoop("nav_abort")
       ELSE pc' = "scan" /\ last' = Step("nav_retry")
    /\ UNCHANGED <<navVars, waitVars, uploadVars, sort_applied, k_keys, raised, compacted, listing, MIN_PAGES, attempt, page_number, shown, idx, seen, parse_failures,
                   parse_failure_samples, passed_target_date, ndjson_exists, ndjson,
                   stats, final, unparsed>>

\* WithinMaxPages letting one page more be scanned
WithinMaxPagesOneMore(n) == n <= MAX_PAGES + 1

\* line 685: the while condition
WithinMaxPages(n) == n <= MAX_PAGES

\* PageNumberAfter counting the page whatever the verification said
PageNumberAfterAlways(ok) == page_number + 1

\* lines 857-862: page_number after wait_for_page_change returned ok
PageNumberAfter(ok) == IF ok THEN page_number + 1 ELSE page_number

\* the page the browser shows after navigate_next used strategy s: the click, goto
\* and JS-click strategies (0-3) lead to the next page once it has loaded, the
\* reload (4) shows the same page again
ShownAfter(s, loaded) == IF s < 4 /\ loaded THEN shown + 1 ELSE shown

\* lines 826-862: navigate_next initiated a navigation with strategy s, then
\* wait_for_page_change. first_before and after_first are None when reading the
\* first a.bid_no_hover fails; url_changed: page.url differs from prev_url, which
\* line 856 reads after the navigation, so only a click that completes later shows
Navigate ==
    /\ pc = "page_end"
    /\ ~EarlyStop
    /\ \E s \in 0..4, loaded \in BOOLEAN, fb_ok \in BOOLEAN, af_ok \in BOOLEAN,
          url_changed \in BOOLEAN :
          LET first_before == IF fb_ok THEN FirstId(shown) ELSE None
              after        == ShownAfter(s, loaded)
              after_first  == IF af_ok THEN FirstId(after) ELSE None
              ok           == WaitForPageChange(first_before, after_first, url_changed)
          IN
          /\ url_changed => (s \in {0, 1, 3} /\ loaded)
          /\ Fault(Cost(s = 4) + Cost(~loaded) + Cost(~fb_ok) + Cost(~af_ok))
          /\ consecutive_nav_failures' = 0
          /\ shown' = after
          /\ clean' = (clean /\ ok /\ after = shown + 1)
          /\ page_number' = PageNumberAfter(ok)
          /\ IF ~ok
             THEN LeaveLoop("verify_failed")
             ELSE /\ IF WithinMaxPages(page_number')
                     THEN pc' = "scan" /\ last' = Step("next_page")
                     ELSE LeaveLoop("max_pages")
    /\ UNCHANGED <<navVars, waitVars, uploadVars, sort_applied, k_keys, raised, compacted, listing, MIN_PAGES, attempt, idx, seen, parse_failures, parse_failure_samples,
                   passed_target_date, ndjson_exists, ndjson, stats, final, unparsed>>

\* lines 865-895: browser.close() and the return of the stats to main
Return ==
    /\ pc = "exited"
    /\ pc' = "returned"
    /\ stats' = [seen_count |-> Cardinality(seen), parse_failures |-> parse_failures,
                 parse_failure_samples |-> parse_failure_samples, returned |-> TRUE]
    /\ last' = Step("return")
    /\ UNCHANGED <<navVars, waitVars, uploadVars, sort_applied, k_keys, raised, compacted, listing, MIN_PAGES, attempt, page_number, shown, idx, seen, parse_failures,
                   parse_failure_samples, passed_target_date, consecutive_nav_failures,
                   ndjson_exists, ndjson, final, unparsed, clean, faults>>

\* MoreAttempts letting the loop run once past BROWSER_RESTART_ATTEMPTS
MoreAttemptsOneExtra == attempt <= BROWSER_RESTART_ATTEMPTS

\* _run_scrape_with_retries, line 953: another attempt of range(1,
\* BROWSER_RESTART_ATTEMPTS + 1) follows the one that raised
MoreAttempts == attempt < BROWSER_RESTART_ATTEMPTS

\* an exception leaves scrape_and_stream: the initial load or wait_for_selector
\* (lines 664-677), bid_links.count() at the top of a page (689), page.url after a
\* navigation (856) or browser.close() (865). _run_scrape_with_retries (945-959)
\* starts the next attempt or gives up
Crash ==
    /\ \/ pc = "setup"
       \/ pc = "scan" /\ idx = 1
       \/ pc = "page_end" /\ ~EarlyStop
       \/ pc = "exited"
    /\ Fault(1)
    /\ ndjson_exists' = TRUE
    /\ FreshLocals
    /\ raised' = raised + 1
    /\ IF MoreAttempts
       THEN attempt' = attempt + 1 /\ pc' = "setup" /\ last' = Step("restart")
       ELSE attempt' = attempt /\ pc' = "failed" /\ last' = Step("exhausted")
    /\ UNCHANGED <<navVars, waitVars, uploadVars, k_keys, compacted, listing, MIN_PAGES, ndjson, stats, final>>

\* main, line 994: dedupe_and_write_final_json on the log of the run; reading the log
\* or writing the meta file may fail, the finally block removes the log (best effort)
Finalize ==
    /\ pc = "returned"
    /\ \E io \in {"ok", "read_failed", "write_failed"}, removed \in BOOLEAN :
          /\ Fault(Cost(io # "ok") + Cost(~removed))
          /\ final' = IF io = "ok" THEN [written |-> TRUE] @@ Payload(ndjson) ELSE final
          /\ pc' = IF io = "ok" THEN "finalized" ELSE "finalize_failed"
          /\ ndjson_exists' = ~removed
          /\ ndjson' = IF removed THEN <<>> ELSE ndjson
          /\ last' = [op |-> "finalize", outcome |-> io, wrote |-> removed]
          /\ compacted' = IF io = "ok"
                          THEN Append(compacted, [log |-> ndjson, payload |-> Payload(ndjson)])
                          ELSE compacted
    /\ UNCHANGED <<navVars, waitVars, uploadVars, sort_applied, k_keys, raised, listing, MIN_PAGES, attempt, page_number, shown, idx, seen, parse_failures,
                   parse_failure_samples, passed_target_date, consecutive_nav_failures,
                   stats, unparsed, clean>>

Next ==
    \/ Setup
    \/ ScanCard
    \/ StopEarly
    \/ NavFail
    \/ Navigate
    \/ Return
    \/ Crash
    \/ Finalize

Spec == Init /\ [][Next]_vars

\* the run keeps taking steps: every browser call returns or raises
SpecLive == Spec /\ WF_vars(Next)

(* ---------------- upload_pdf_to_supabase ---------------- *)
Blobs == 1..NumBlobs

\* the run is not started: only the uploader acts
RunIdle == RunStart([p \in 1..NumPages |-> [i \in 1..PageLen |-> CardAt(p, i, "target")]],
                    1, FALSE, <<>>, "idle")

runVars == <<listing, MIN_PAGES, attempt, pc, page_number, shown, idx, seen, parse_failures,
             parse_failure_samples, passed_target_date, consecutive_nav_failures,
             ndjson_exists, ndjson, stats, final, unparsed, clean, faults, last, raised,
             compacted, sort_applied, k_keys>>

\* the probe's answers: a store that keeps the object and its hash metadata answers
\* 200 for a present object and 404 for an absent one, or fails
HeadResponses == {"neterr", "429", "500"} \cup (IF store = None THEN {"404"} ELSE {"ok"})
PostResponses == {"ok", "429", "500", "neterr"}

\* ShaMatches comparing the stored hash with the payload instead of its digest
ShaMatchesPayload(existing_sha, sha) == existing_sha # None /\ existing_sha[1] = u_bytes

\* lines 259-263: the stored hash matches the payload's
ShaMatches(existing_sha, sha) == existing_sha # None /\ existing_sha[1] = sha

\* _get_object_sha256_if_exists: a network error or a 429 goes to the next attempt
\* of range(1, 4) (lines 228-242)
HeadRetries(resp) == resp \in {"neterr", "429"} /\ u_attempt < HEAD_ATTEMPTS

\* the value _get_object_sha256_if_exists returns once it stops on resp (234-251)
HeadResult(resp) == IF resp = "ok" THEN store ELSE None

\* PostRetries with one attempt too many
PostRetriesOneMore == u_attempt <= UPLOAD_ATTEMPTS

\* the POST loop goes on after a response that is not OK (lines 277-294): a 429
\* sleeps Retry-After and then, like every failure, uses up the attempt
PostRetries == u_attempt < UPLOAD_ATTEMPTS

\* a call starts: line 256
UploadCall ==
    /\ u_pc \in {"idle", "done"}
    /\ u_calls < MaxCalls
    /\ \E b \in Blobs : u_bytes' = b
    /\ u_calls' = u_calls + 1
    /\ u_prev' = IF u_pc = "done"
                 THEN [bytes |-> u_bytes, ret |-> u_ret, posts |-> Len(u_resps)]
                 ELSE u_prev
    /\ u_pc' = "head"
    /\ u_attempt' = 1
    /\ u_heads' = <<>>
    /\ u_resps' = <<>>
    /\ u_ret' = NoRet
    /\ UNCHANGED <<store, runVars, navVars, waitVars>>

\* one HEAD of the existence probe, and lines 258-265 when the probe ends
UploadHead ==
    /\ u_pc = "head"
    /\ \E resp \in HeadResponses :
          /\ u_heads' = Append(u_heads, resp)
          /\ IF HeadRetries(resp)
             THEN u_attempt' = u_attempt + 1 /\ UNCHANGED <<u_pc, u_ret>>
             ELSE IF ShaMatches(HeadResult(resp), Sha256(u_bytes))
             THEN /\ u_pc' = "done"
                  /\ u_ret' = [status |-> "returned", uploaded |-> FALSE,
                               sha |-> Some(Sha256(u_bytes))]
                  /\ u_attempt' = 1
             ELSE u_pc' = "post" /\ u_attempt' = 1 /\ UNCHANGED u_ret
    /\ UNCHANGED <<store, u_calls, u_bytes, u_resps, u_prev, runVars, navVars, waitVars>>

\* one POST of the upload loop (lines 277-296)
UploadPost ==
    /\ u_pc = "post"
    /\ \E resp \in PostResponses :
          /\ u_resps' = Append(u_resps, resp)
          /\ IF resp = "ok"
             THEN /\ store' = Some(Sha256(u_bytes))
                  /\ u_pc' = "done"
                  /\ u_ret' = [status |-> "returned", uploaded |-> TRUE,
                               sha |-> Some(Sha256(u_bytes))]
                  /\ UNCHANGED u_attempt
             ELSE /\ UNCHANGED store
                  /\ IF PostRetries
                     THEN u_attempt' = u_attempt + 1 /\ UNCHANGED <<u_pc, u_ret>>
                     ELSE /\ u_pc' = "done"
                          /\ u_ret' = [status |-> "raised", uploaded |-> FALSE, sha |-> None]
                          /\ UNCHANGED u_attempt
    /\ UNCHANGED <<u_calls, u_bytes, u_heads, u_prev, runVars, navVars, waitVars>>

InitUpload == RunIdle /\ UploadIdle /\ NavIdle /\ WaitIdle

NextUpload ==
    \/ UploadCall
    \/ UploadHead
    \/ UploadPost

SpecUpload == InitUpload /\ [][NextUpload]_vars

(* ---------------- dedupe_and_write_final_json on any log ---------------- *)
\* the lines a temporary log may hold: records of any identifier (0: none) and
\* lines that are not JSON
LogLines ==
    { [json |-> j, page |-> p, bid_number |-> b,
       start_datetime |-> IsoFormat(target_date * SlotsPerDay + 1),
       pdf_sha256 |-> None, pdf_uploaded |-> FALSE] :
         j \in BOOLEAN, p \in 1..2, b \in 0..NumIds } \
    { l \in [json : {FALSE}, page : 1..2, bid_number : 0..NumIds,
             start_datetime : {IsoFormat(target_date * SlotsPerDay + 1)},
             pdf_sha256 : {None}, pdf_uploaded : {FALSE}] : l.page # 1 \/ l.bid_number # 0 }

RECURSIVE SeqsUpTo(_, _)
SeqsUpTo(S, n) ==
    IF n = 0 THEN {<<>>}
    ELSE LET shorter == SeqsUpTo(S, n - 1)
         IN shorter \cup {Append(q, x) : q \in shorter, x \in S}

InitDedupe ==
    /\ \E log \in SeqsUpTo(LogLines, MaxLogLen) :
          RunStart([p \in 1..NumPages |-> [i \in 1..PageLen |-> CardAt(p, i, "target")]],
                   1, TRUE, log, "returned")
    /\ UploadIdle
    /\ NavIdle
    /\ WaitIdle

NextDedupe == Finalize

SpecDedupe == InitDedupe /\ [][NextDedupe]_vars

(* ---------------- navigate_next ---------------- *)
\* the strategies are numbered 0..4 (docstring, lines 340-345); 4 is the reload
LAST_STRATEGY == 4

\* how one strategy ends: it initiated a transition (click, goto or reload returned),
\* it found no candidate element, or it threw; the reload has no candidate to find
StrategyOutcomes(s) ==
    IF s = LAST_STRATEGY THEN {"initiated", "threw"}
    ELSE {"initiated", "no_candidate", "threw"}

\* NextStrategy passing over the Next control after the numbered link
NextStrategySkip(s) == IF s = 0 THEN 2 ELSE s + 1

\* the try blocks follow one another in the source: 0 (350), 1 (369), 2 (403),
\* 3 (452), 4 (477)
NextStrategy(s) == s + 1

\* navigate_next(page, first_before, current_page_number) is called (line 348)
NavCall ==
    /\ n_pc \in {"idle", "done"}
    /\ \E k \in 1..MAX_PAGES : n_page' = k
    /\ n_pc' = "trying"
    /\ n_strategy' = 0
    /\ n_tried' = <<>>
    /\ n_ret' = None
    /\ UNCHANGED <<runVars, uploadVars, waitVars>>

\* one strategy is attempted: "return True" when it initiated, the next try block
\* otherwise, "return False" after the last (lines 350-484)
NavTry ==
    /\ n_pc = "trying"
    /\ \E o \in StrategyOutcomes(n_strategy) :
          /\ n_tried' = Append(n_tried, [strategy |-> n_strategy, outcome |-> o])
          /\ IF o = "initiated"
             THEN n_pc' = "done" /\ n_ret' = Some(TRUE) /\ UNCHANGED n_strategy
             ELSE IF n_strategy >= LAST_STRATEGY
             THEN n_pc' = "done" /\ n_ret' = Some(FALSE) /\ UNCHANGED n_strategy
             ELSE n_strategy' = NextStrategy(n_strategy) /\ UNCHANGED <<n_pc, n_ret>>
    /\ UNCHANGED <<n_page, runVars, uploadVars, waitVars>>

InitNav == RunIdle /\ UploadIdle /\ NavIdle /\ WaitIdle

NextNav ==
    \/ NavCall
    \/ NavTry

SpecNav == InitNav /\ [][NextNav]_vars

(* ---------------- wait_for_page_change ---------------- *)
\* poll ticks before the timeout: timeout_ms / wait_interval_ms
MaxTicks == 2

\* the texts a first a.bid_no_hover may show: none read, the empty string (0), or
\* an identifier
Texts == {None} \cup {Some(t) : t \in 0..NumIds}

\* what a poll tick observes (lines 498-519): the tick raised before reading
\* anything, or the URL differs from prev_url and after_first is the text read
\* (page.url raising reads as no change, a failed read as None)
TickObservations ==
    {[raised |-> TRUE, url_changed |-> FALSE, after_first |-> None]} \cup
    {[raised |-> FALSE, url_changed |-> u, after_first |-> t] : u \in BOOLEAN, t \in Texts}

\* wait_for_page_change(page, prev_url, first_before_text) is called
WaitCall ==
    /\ w_pc \in {"idle", "done"}
    /\ \E t \in Texts : w_first_before' = t
    /\ w_pc' = "poll"
    /\ w_waited' = 0
    /\ w_obs' = <<>>
    /\ w_reload' = "none"
    /\ w_ret' = None
    /\ UNCHANGED <<runVars, uploadVars, navVars>>

\* one iteration of "while waited < timeout_ms" (lines 497-537)
WaitTick ==
    /\ w_pc = "poll"
    /\ \E o \in TickObservations :
          LET changed == ~o.raised /\
                         WaitForPageChange(w_first_before, o.after_first, o.url_changed)
          IN
          /\ w_obs' = Append(w_obs, o)
          /\ IF changed
             THEN w_pc' = "done" /\ w_ret' = Some(TRUE) /\ UNCHANGED w_waited
             ELSE /\ w_waited' = w_waited + 1
                  /\ w_pc' = IF w_waited' < MaxTicks THEN "poll" ELSE "reload"
                  /\ UNCHANGED w_ret
    /\ UNCHANGED <<w_first_before, w_reload, runVars, uploadVars, navVars>>

\* lines 539-570: the snapshots, then the final reload: it raises, or page.url is
\* read and compared with prev_url
WaitReload ==
    /\ w_pc = "reload"
    /\ \E r \in {"threw", "same_url", "new_url"} :
          /\ w_reload' = r
          /\ w_ret' = Some(r = "new_url")
    /\ w_pc' = "done"
    /\ UNCHANGED <<w_first_before, w_waited, w_obs, runVars, uploadVars, navVars>>

InitWait == RunIdle /\ UploadIdle /\ NavIdle /\ WaitIdle

NextWait ==
    \/ WaitCall
    \/ WaitTick
    \/ WaitReload

SpecWait == InitWait /\ [][NextWait]_vars

(* ---------------- compaction run again over the same log ---------------- *)
\* compactions of one log
MaxCompactions == 2

\* dedupe_and_write_final_json is about to run again over a log byte-identical to
\* the one it read last
Recompact ==
    /\ pc = "finalized"
    /\ Len(compacted) < MaxCompactions
    /\ ndjson' = compacted[Len(compacted)].log
    /\ ndjson_exists' = TRUE
    /\ pc' = "returned"
    /\ last' = Step("recompact")
    /\ UNCHANGED <<navVars, waitVars, uploadVars, sort_applied, k_keys, raised, compacted, listing, MIN_PAGES, attempt,
                   page_number, shown, idx, seen, parse_failures, parse_failure_samples,
                   passed_target_date, consecutive_nav_failures, stats, final, unparsed,
                   clean, faults>>

NextRecompact ==
    \/ Finalize
    \/ Recompact

SpecRecompact == InitDedupe /\ [][NextRecompact]_vars

(* ---------------- the object key of a record's PDF ---------------- *)
\* segments of an identifier ("GEM/2024/B/4567" has four), and the values a segment
\* takes besides "B"
MaxSegs == 4
NumSegVals == 2

\* segment values: 1 is "B", the others are years, numbers, prefixes
SegVals == 1..NumSegVals
RECURSIVE SegSeqs(_)
SegSeqs(n) ==
    IF n = 0 THEN {<<>>}
    ELSE {Append(q, x) : q \in SegSeqs(n - 1), x \in SegVals}

\* bid_number_text.split("/") of the identifiers the loop accepts: "/B/" is in the
\* text (line 706), so some segment that is neither the first nor the last is "B"
Identifiers ==
    {id \in UNION {SegSeqs(n) : n \in 3..MaxSegs} :
        \E k \in 2..(Len(id) - 1) : id[k] = 1}

\* "_".join(parts): the parts with the separator (0) between them
RECURSIVE JoinUnderscore(_)
JoinUnderscore(parts) ==
    IF Len(parts) <= 1 THEN parts
    ELSE <<Head(parts), 0>> \o JoinUnderscore(Tail(parts))

\* lines 788-792: the last two segments, or the whole text when it has no "/"
Suffix(parts) ==
    IF Len(parts) >= 2
    THEN JoinUnderscore(SubSeq(parts, Len(parts) - 1, Len(parts)))
    ELSE JoinUnderscore(parts)

\* lines 793-796: bids/<YYYY-MM-DD>/GeM_<ddmmyy>_<suffix>.pdf
ObjectKey(date, parts) == [date |-> date, date_token |-> date, suffix |-> Suffix(parts)]

\* a record is accepted and its PDF gets its object key
AssignKey ==
    /\ Cardinality(k_keys) < 2
    /\ \E id \in Identifiers :
          /\ \A e \in k_keys : e.id # id
          /\ k_keys' = k_keys \cup {[id |-> id, key |-> ObjectKey(target_date, id)]}
    /\ UNCHANGED <<listing, MIN_PAGES, attempt, pc, page_number, shown, idx, seen, parse_failures,
                   parse_failure_samples, passed_target_date, consecutive_nav_failures,
                   ndjson_exists, ndjson, stats, final, unparsed, clean, faults, last, raised,
                   compacted, sort_applied, uploadVars, navVars, waitVars>>

InitKey == RunIdle /\ UploadIdle /\ NavIdle /\ WaitIdle

NextKey == AssignKey

SpecKey == InitKey /\ [][NextKey]_vars

(* ======================= the claims ======================= *)
LastLine == ndjson[Len(ndjson)]
IsTarget(card) == card.is_bid /\ card.start_dt = StartOf("target")
IsOlder(card) == card.is_bid /\ card.start_dt # None /\ DateOf(card.start_dt[1]) < target_date
IsNewer(card) == card.is_bid /\ card.start_dt # None /\ DateOf(card.start_dt[1]) > target_date
IsUnparsable(card) == card.is_bid /\ card.start_dt = None
Positions == 1..PageLen

\* C1: every line of the temporary log, and every record of the compacted
\* document, has a start_datetime whose date is target_date
C1_TargetDateOnly ==
    /\ \A i \in 1..Len(ndjson) : ndjson[i].start_datetime[1] = target_date
    /\ \A i \in 1..Len(final.bids) : final.bids[i].start_datetime[1] = target_date

\* a run that scanned a newer card, accepted records, met an older card and compacted
C1_Witness ==
    /\ pc = "finalized"
    /\ final.record_count > 0
    /\ passed_target_date
    /\ IsNewer(listing[1][1])

\* C2: whatever the temporary log holds, the compacted records have pairwise
\* distinct bid_numbers, exactly the identifiers of the log's records, and
\* record_count is their number
C2_NoDuplicateIds ==
    final.written =>
        /\ \A i, j \in 1..Len(final.bids) :
              i # j => final.bids[i].bid_number # final.bids[j].bid_number
        /\ final.record_count = Len(final.bids)
        /\ ndjson_exists =>
              {final.bids[i].bid_number : i \in 1..Len(final.bids)} =
              {ndjson[i].bid_number : i \in {k \in 1..Len(ndjson) :
                                                ndjson[k].json /\ ndjson[k].bid_number # 0}}

\* a compaction of a log in which two records carry the same identifier
C2_Witness ==
    /\ pc = "finalized"
    /\ ndjson_exists
    /\ \E i, j \in 1..Len(ndjson) :
          /\ i < j
          /\ ndjson[i].json /\ ndjson[j].json
          /\ ndjson[i].bid_number # 0
          /\ ndjson[i].bid_number = ndjson[j].bid_number

\* the dates of the cards do not increase along the listing
SortedLatestFirst ==
    \A p1, p2 \in 1..NumPages : \A i1, i2 \in Positions :
        (/\ p1 < p2 \/ (p1 = p2 /\ i1 < i2)
         /\ listing[p1][i1].start_dt # None
         /\ listing[p2][i2].start_dt # None)
        => DateOf(listing[p1][i1].start_dt[1]) >= DateOf(listing[p2][i2].start_dt[1])

\* page p holds a bid older than target_date
OlderOn(p) == \E i \in Positions : IsOlder(PageAt(p)[i])
\* an older bid is met on page p or before
PassedBy(p) == \E q \in 1..p : OlderOn(q)
\* the first record of page p whose start date is read (RA entries and cards
\* without a parsable date set apart) is older than target_date
FirstRecordOlder(p) ==
    \E i \in Positions :
        /\ IsOlder(PageAt(p)[i])
        /\ \A j \in 1..(i - 1) : ~PageAt(p)[j].is_bid \/ PageAt(p)[j].start_dt = None

\* the loop has just stopped early, on a listing sorted latest first, with every
\* read, navigation and verification of the attempt having succeeded
C3_Premise ==
    /\ pc = "exited"
    /\ last.op = "stop"
    /\ clean
    /\ SortedLatestFirst

\* Scenario A: page 1 holds target-date records only, page 2 starts with an older
\* one, MIN_PAGES = 1
ScenarioA ==
    /\ MIN_PAGES = 1
    /\ \A i \in Positions : IsTarget(listing[1][i])
    /\ IsOlder(listing[2][1])

\* C3 as stated: the run halts at the first page p >= MIN_PAGES whose first scanned
\* record is strictly older than target_date
C3_HaltsAtFirstOlderFirstRecord ==
    C3_Premise =>
        /\ page_number >= MIN_PAGES
        /\ FirstRecordOlder(page_number)
        /\ \A p \in MIN_PAGES..(page_number - 1) : ~FirstRecordOlder(p)

\* C3 amended: the run halts at the first page p >= MIN_PAGES such that a record
\* strictly older than target_date was met on page p or on an earlier page; in
\* Scenario A it stops after page 2 with one log line per record of page 1
C3_HaltsOncePassed ==
    C3_Premise =>
        /\ page_number >= MIN_PAGES
        /\ PassedBy(page_number)
        /\ \A p \in MIN_PAGES..(page_number - 1) : ~PassedBy(p)
        /\ (ScenarioA /\ faults = 0) => (page_number = 2 /\ Len(ndjson) = PageLen)

\* Scenario A has stopped after page 2
C3_Witness ==
    /\ C3_Premise
    /\ ScenarioA
    /\ faults = 0
    /\ page_number = 2
    /\ Len(ndjson) = PageLen

\* C4: the loop is left only when passed_target_date and page_number >= MIN_PAGES,
\* or page_number > MAX_PAGES, or the consecutive navigation failures exceed
\* CONSECUTIVE_NAV_FAILURES_BEFORE_ABORT
C4_LoopLeftOnlyWhen ==
    pc = "exited" =>
        \/ passed_target_date /\ page_number >= MIN_PAGES
        \/ page_number > MAX_PAGES
        \/ consecutive_nav_failures > CONSECUTIVE_NAV_FAILURES_BEFORE_ABORT

\* the probe of the current call read the stored hash back
ProbeRead == u_heads # <<>> /\ u_heads[Len(u_heads)] = "ok"
SkippedRet == [status |-> "returned", uploaded |-> FALSE, sha |-> Some(Sha256(u_bytes))]
UploadedRet == [status |-> "returned", uploaded |-> TRUE, sha |-> Some(Sha256(u_bytes))]
\* the current call has ended and repeats the bytes of the call before it
SecondCallDone == u_pc = "done" /\ u_calls >= 2 /\ u_prev.bytes = u_bytes

\* C5 as stated: two consecutive calls with the same bytes make at most one POST in
\* total and the second returns uploaded = false with the digest, whatever the
\* probes answer
C5_AtMostOnePost ==
    SecondCallDone =>
        /\ u_prev.posts + Len(u_resps) <= 1
        /\ u_ret = SkippedRet

\* C5 amended: when the first call returned and the second call's probe reads the
\* stored hash back (an OK answer within its three attempts), the second call makes
\* no POST and returns uploaded = false with the digest; when the probe ends without
\* reading it (a status that is not OK, or three network errors or 429s) the second
\* call writes again
C5_SecondCallSkips ==
    /\ (SecondCallDone /\ u_prev.ret.status = "returned" /\ ProbeRead) =>
          /\ Len(u_resps) = 0
          /\ u_ret = SkippedRet
          /\ u_prev.posts + Len(u_resps) = u_prev.posts
    /\ (SecondCallDone /\ ~ProbeRead) => Len(u_resps) >= 1

\* the second call skipped the write after a probe that first met a 429 and a
\* network error
C5_Witness ==
    /\ SecondCallDone
    /\ u_prev.ret.uploaded
    /\ ProbeRead
    /\ Len(u_heads) = HEAD_ATTEMPTS
    /\ u_ret = SkippedRet

\* C6: a 429 does not use up an attempt of the upload loop: a call raises only
\* after UPLOAD_ATTEMPTS failures that are not 429s
C6_429KeepsBudget ==
    u_ret.status = "raised" =>
        Cardinality({i \in 1..Len(u_resps) : u_resps[i] # "429"}) = UPLOAD_ATTEMPTS

\* C7: a call makes at most UPLOAD_ATTEMPTS POSTs, returns uploaded = true at the
\* first OK response, and raises exactly when no POST of the budget was answered OK
C7_AttemptBudget ==
    /\ Len(u_resps) <= UPLOAD_ATTEMPTS
    /\ \A i \in 1..(Len(u_resps) - 1) : u_resps[i] # "ok"
    /\ (u_resps # <<>> /\ u_resps[Len(u_resps)] = "ok") => (u_pc = "done" /\ u_ret = UploadedRet)
    /\ u_ret.status = "raised" <=>
          /\ u_pc = "done"
          /\ Len(u_resps) = UPLOAD_ATTEMPTS
          /\ \A i \in 1..Len(u_resps) : u_resps[i] # "ok"
    /\ u_pc = "post" => Len(u_resps) < UPLOAD_ATTEMPTS

\* a call that raised, then a call that succeeded at its last attempt
C7_Witness ==
    /\ u_pc = "done"
    /\ u_prev.ret.status = "raised"
    /\ Len(u_resps) = UPLOAD_ATTEMPTS
    /\ u_ret = UploadedRet

\* C8: after a PDF failure for an accepted record the record is in the log with
\* pdf_uploaded = false and pdf_sha256 = null, and the scan is at the next card of
\* the page (or at the page's end)
C8_PdfFailureKeepsRecord ==
    (last.op = "accept" /\ last.outcome = "failed" /\ last.wrote) =>
        /\ ndjson # <<>>
        /\ LastLine.pdf_uploaded = FALSE
        /\ LastLine.pdf_sha256 = None
        /\ LastLine.bid_number \in seen
        /\ pc \in {"scan", "page_end"}
        /\ pc = "scan" => (idx > 1 /\ PageAt(shown)[idx - 1].bid_number = LastLine.bid_number)

\* a PDF failure in the middle of a page
C8_Witness ==
    /\ last.op = "accept"
    /\ last.outcome = "failed"
    /\ last.wrote
    /\ pc = "scan"
    /\ LastLine.pdf_uploaded = FALSE

\* the records a scan of page p accepts: target-date bids before the first older one
AcceptedOn(p) ==
    {i \in Positions : IsTarget(PageAt(p)[i]) /\ \A j \in 1..(i - 1) : ~IsOlder(PageAt(p)[j])}
\* the page after which a run without faults leaves the loop
HaltPage ==
    IF \E p \in MIN_PAGES..MAX_PAGES : PassedBy(p)
    THEN CHOOSE p \in MIN_PAGES..MAX_PAGES :
            PassedBy(p) /\ \A q \in MIN_PAGES..(p - 1) : ~PassedBy(q)
    ELSE MAX_PAGES
\* the lines a completed run without faults writes for the listing
CompletedLines ==
    Cardinality({<<p, i>> \in (1..MAX_PAGES) \X Positions : p <= HaltPage /\ i \in AcceptedOn(p)})

\* C9: the log a crashed run leaves has at most the lines of a completed run
C9_CrashSubset == pc = "failed" => Len(ndjson) <= CompletedLines

Min(a, b) == IF a < b THEN a ELSE b

\* C10: each unparsable card counts once in parse_failures over the run, is never
\* written, does not set passed_target_date, and the samples number
\* min(parse_failures, PARSE_FAILURE_SAMPLE_LIMIT)
C10_ParseFailureOnce ==
    /\ parse_failures = Cardinality(unparsed)
    /\ Len(parse_failure_samples) = Min(parse_failures, PARSE_FAILURE_SAMPLE_LIMIT)
    /\ \A pi \in unparsed : \A i \in 1..Len(ndjson) :
          ndjson[i].bid_number # PageAt(pi[1])[pi[2]].bid_number
    /\ (\A p \in 1..MAX_PAGES : ~OlderOn(p)) => ~passed_target_date

\* the stats scrape_and_stream returns from its locals (lines 890-895)
StatsOfLocals ==
    [seen_count |-> Cardinality(seen), parse_failures |-> parse_failures,
     parse_failure_samples |-> parse_failure_samples, returned |-> TRUE]

\* C11: scrape_and_stream is executed at most BROWSER_RESTART_ATTEMPTS times,
\* attempt i + 1 starts only after attempt i raised, the stats returned are those of
\* the first attempt that completes (no attempt follows it), and the final error is
\* raised exactly when all attempts raised
C11_RestartBudget ==
    /\ attempt \in 1..BROWSER_RESTART_ATTEMPTS
    /\ raised <= BROWSER_RESTART_ATTEMPTS
    /\ pc # "failed" => attempt = raised + 1
    /\ pc = "failed" <=> raised = BROWSER_RESTART_ATTEMPTS
    /\ pc = "failed" => ~stats.returned
    /\ stats.returned =>
          /\ pc \in {"returned", "finalized", "finalize_failed"}
          /\ stats = StatsOfLocals

\* the second attempt completed after the first raised, and returned its records
C11_Witness ==
    /\ pc = "returned"
    /\ attempt = 2
    /\ raised = 1
    /\ stats.returned
    /\ stats.seen_count > 0

\* C12: a run that ends in a failure hands the partial statistics to the caller:
\* after an early termination of the page loop the stats of the locals, and after
\* the restart attempts are exhausted the stats gathered before the failure
C12_FailureCarriesStats ==
    /\ (pc = "returned" /\ ~(passed_target_date /\ page_number >= MIN_PAGES)) =>
          stats = StatsOfLocals
    /\ pc = "failed" => stats.returned

\* C13: within one run, restarts included, no bid_number is appended to the
\* temporary log twice
C13_IdAppendedOnce ==
    \A i, j \in 1..Len(ndjson) : i # j => ndjson[i].bid_number # ndjson[j].bid_number

\* C14: page_number starts at 1 and changes only by +1, exactly in the step in which
\* wait_for_page_change returned true, with consecutive_nav_failures then 0 (a new
\* execution of scrape_and_stream starts again at 1); a failed navigation or a failed
\* verification leaves it unchanged
C14_PageNumberSteps ==
    /\ page_number = 1
    /\ [][/\ page_number' # page_number =>
               \/ /\ page_number' = page_number + 1
                  /\ last'.op \in {"next_page", "max_pages"}
                  /\ consecutive_nav_failures' = 0
               \/ /\ last'.op \in {"restart", "exhausted"}
                  /\ page_number' = 1
          /\ last'.op \in {"next_page", "max_pages"} => page_number' = page_number + 1
          /\ last'.op \in {"nav_retry", "nav_abort", "verify_failed"} =>
                page_number' = page_number]_vars

\* page 2 reached after a navigation that had failed once
C14_Witness ==
    /\ page_number = 2
    /\ last.op = "next_page"
    /\ consecutive_nav_failures = 0
    /\ faults >= 1
    /\ ~clean

\* C17: after a failed page-change verification the consecutive-failure counter has
\* been incremented, and the loop is left only if the counter exceeds
\* CONSECUTIVE_NAV_FAILURES_BEFORE_ABORT (else the navigation is retried from the
\* same page)
C17_VerifyFailureRetries ==
    last.op = "verify_failed" =>
        /\ consecutive_nav_failures >= 1
        /\ pc = "exited" => consecutive_nav_failures > CONSECUTIVE_NAV_FAILURES_BEFORE_ABORT

\* the strategies attempted so far that did not initiate a transition
FailedTries == {i \in 1..Len(n_tried) : n_tried[i].outcome \in {"no_candidate", "threw"}}

\* C15: the strategies are attempted in the order 0, 1, 2, 3, 4, each only after all
\* the earlier ones threw or found no candidate; none is attempted after one
\* initiated; navigate_next returns true as soon as one initiates and false only
\* when all five failed
C15_StrategiesInOrder ==
    /\ \A i \in 1..Len(n_tried) : n_tried[i].strategy = i - 1
    /\ \A i \in 1..(Len(n_tried) - 1) : i \in FailedTries
    /\ Len(n_tried) <= LAST_STRATEGY + 1
    /\ n_ret = Some(TRUE) <=>
          (n_tried # <<>> /\ n_tried[Len(n_tried)].outcome = "initiated")
    /\ n_ret = Some(FALSE) <=>
          (Len(n_tried) = LAST_STRATEGY + 1 /\ FailedTries = 1..(LAST_STRATEGY + 1))
    /\ n_pc = "done" <=> n_ret # None
    /\ n_pc = "trying" => n_strategy = Len(n_tried)

\* the DOM-href goto initiated after the numbered link threw and no Next control
\* was found
C15_Witness ==
    /\ n_ret = Some(TRUE)
    /\ Len(n_tried) = 3
    /\ n_tried[1].outcome = "threw"
    /\ n_tried[2].outcome = "no_candidate"
    /\ n_tried[3] = [strategy |-> 2, outcome |-> "initiated"]

\* a first identifier is shown: a text was read and it is not empty
Present(text) == text # None /\ text[1] # 0

\* the signals of the claim at one poll tick: the URL differs from prev_url, or a
\* first identifier is present while the baseline was absent, or the first
\* identifier differs from the baseline
SignalAt(o) ==
    /\ ~o.raised
    /\ \/ o.url_changed
       \/ ~Present(w_first_before) /\ Present(o.after_first)
       \/ Present(o.after_first) /\ o.after_first # w_first_before

\* C16: wait_for_page_change returns true if and only if some poll tick observes one
\* of the three signals, or else the final reload leaves a URL different from
\* prev_url
C16_TrueIffSignal ==
    w_pc = "done" =>
        (w_ret = Some(TRUE) <=>
            \/ \E i \in 1..Len(w_obs) : SignalAt(w_obs[i])
            \/ w_reload = "new_url")

\* the log the last compaction read
CompactedLog == compacted[Len(compacted)].log
\* the lines of the log that are records of identifier b
LinesOf(log, b) == {i \in 1..Len(log) : log[i].json /\ log[i].bid_number = b}
FirstOf(S) == CHOOSE i \in S : \A j \in S : i <= j
LastOf(S) == CHOOSE i \in S : \A j \in S : j <= i

\* C18 as stated: the record emitted for an identifier is the one of the last line
\* of the log that carries it
C18_LastWriteWins ==
    final.written =>
        \A k \in 1..Len(final.bids) :
            final.bids[k] = CompactedLog[LastOf(LinesOf(CompactedLog, final.bids[k].bid_number))]

\* C18 amended: the record emitted for an identifier is the one of the first line of
\* the log that carries it (first write wins)
C18_FirstWriteWins ==
    final.written =>
        \A k \in 1..Len(final.bids) :
            final.bids[k] = CompactedLog[FirstOf(LinesOf(CompactedLog, final.bids[k].bid_number))]

\* a compacted log in which two different records carry the same identifier
C18_Witness ==
    /\ final.written
    /\ \E i, j \in 1..Len(CompactedLog) :
          /\ i < j
          /\ CompactedLog[i].json /\ CompactedLog[j].json
          /\ CompactedLog[i].bid_number # 0
          /\ CompactedLog[i].bid_number = CompactedLog[j].bid_number
          /\ CompactedLog[i] # CompactedLog[j]
    /\ final.record_count = 1

\* C19: when reading the log or writing the compacted document failed the temporary
\* log still exists, and a failed deletion does not make the compaction fail
C19_LogKeptOnFailure ==
    /\ pc = "finalize_failed" => ndjson_exists
    /\ (last.op = "finalize" /\ last.outcome = "ok") => (pc = "finalized" /\ final.written)

IdsOf(payload) == {payload.bids[k].bid_number : k \in 1..Len(payload.bids)}

CardOps == {"skip_ra", "parse_failure", "older", "skip_date", "duplicate", "accept", "read_error"}
\* the listing page and position of the card that carries bid_number b
PageOfBid(b) == ((b - 1) \div PageLen) + 1
PosOfBid(b) == ((b - 1) % PageLen) + 1

\* C21: the step that meets an older card sets passed_target_date, ends the scan of
\* the page and accepts, writes and counts nothing; a card past the first of a page
\* is examined only right after a card that was not older; and, when every read
\* succeeds, no record of the log stands after an older card of its page
C21_StopsAtOlderCard ==
    /\ [][last'.op = "older" =>
             /\ passed_target_date'
             /\ pc' = "page_end"
             /\ ndjson' = ndjson
             /\ seen' = seen
             /\ parse_failures' = parse_failures]_vars
    /\ [][(last'.op \in CardOps /\ idx > 1) => last.op \in (CardOps \ {"older"})]_vars
    /\ [](faults = 0 =>
             \A k \in 1..Len(ndjson) :
                 \A j \in 1..(PosOfBid(ndjson[k].bid_number) - 1) :
                     ~IsOlder(PageAt(PageOfBid(ndjson[k].bid_number))[j]))

\* an older card met first on a page whose next card has the target date: the scan
\* of the page is over and nothing is accepted
C21_Witness ==
    /\ last.op = "older"
    /\ pc = "page_end"
    /\ IsOlder(PageAt(shown)[1])
    /\ IsTarget(PageAt(shown)[2])
    /\ passed_target_date
    /\ ndjson = <<>>

\* the identifiers of the lines of the log
LoggedIds == {ndjson[k].bid_number : k \in 1..Len(ndjson)}

\* C22: between two candidates every identifier of seen has its line in the log, and
\* the seen_count an attempt reports is the number of lines it appended (here for the
\* first attempt, which starts on an empty log)
C22_SeenIsLogged ==
    /\ pc \in {"scan", "page_end", "exited", "returned"} => seen \subseteq LoggedIds
    /\ (pc = "returned" /\ attempt = 1) => stats.seen_count = Len(ndjson)

\* C23: a page is scanned only on a listing that set_sort_latest_start has switched
\* to the latest-first ordering
C23_ScansSortedListing ==
    pc \in {"scan", "page_end"} => sort_applied

\* s is a prefix of t
IsPrefix(s, t) == Len(s) <= Len(t) /\ \A k \in 1..Len(s) : s[k] = t[k]
\* positions of the run, from the first attempt to the return of the stats
RunPcs == {"setup", "scan", "page_end", "exited", "returned", "failed"}

\* C24: during the run the log only grows: its content at any point, the start of a
\* restart attempt included, is a prefix of its content at every later point; the
\* step that starts a restart attempt leaves the log as it is and empties seen, and
\* opening the log again leaves its lines in place
C24_RestartKeepsLog ==
    /\ [][pc' \in RunPcs => IsPrefix(ndjson, ndjson')]_vars
    /\ [][last'.op = "restart" => (ndjson' = ndjson /\ ndjson_exists' /\ seen' = {})]_vars
    /\ [][last'.op = "setup" => (ndjson' = ndjson /\ seen' = {})]_vars

\* the second attempt starts its scan with an empty seen on a log that holds the
\* lines of the first
C24_Witness ==
    /\ attempt = 2
    /\ pc = "scan"
    /\ last.op = "setup"
    /\ seen = {}
    /\ Len(ndjson) >= 1

\* C25: no page is scanned with page_number above MAX_PAGES, and the loop is left
\* once page_number exceeds MAX_PAGES
C25_MaxPagesCap ==
    /\ page_number \in 1..(MAX_PAGES + 1)
    /\ pc \in {"scan", "page_end"} => page_number <= MAX_PAGES
    /\ page_number > MAX_PAGES => (pc \in {"exited", "returned", "finalized", "finalize_failed"})
    /\ last.op = "max_pages" => (page_number = MAX_PAGES + 1 /\ pc = "exited")

\* the loop has been left at the cap, without the early stop
C25_Witness ==
    /\ last.op = "max_pages"
    /\ pc = "exited"
    /\ page_number = MAX_PAGES + 1

\* the page loop is running
InLoop == pc \in {"scan", "page_end"}
\* what is left of the loop: pages up to the cap, then navigation failures up to the
\* abort, then cards of the page being scanned
LoopMeasure ==
    ((MAX_PAGES + 1 - page_number) * (CONSECUTIVE_NAV_FAILURES_BEFORE_ABORT + 1)
        + (CONSECUTIVE_NAV_FAILURES_BEFORE_ABORT - consecutive_nav_failures)) * (PageLen + 2)
    + (IF pc = "scan" THEN PageLen + 1 - idx ELSE 0)

\* C26: inside the loop page_number is at most MAX_PAGES and
\* consecutive_nav_failures below the abort threshold; every step that stays in the
\* loop advances the scan of the page, increments consecutive_nav_failures, or
\* increments page_number (the measure decreases); and a run that keeps taking
\* steps leaves the loop
C26_LoopTerminates ==
    /\ [](InLoop => /\ page_number <= MAX_PAGES
                    /\ consecutive_nav_failures < CONSECUTIVE_NAV_FAILURES_BEFORE_ABORT
                    /\ LoopMeasure > 0)
    /\ [][(InLoop /\ InLoop') => LoopMeasure' < LoopMeasure]_vars
    /\ (InLoop ~> ~InLoop)

\* the loop has been left by the navigation-failure abort, after a retry
C26_Witness ==
    /\ pc = "exited"
    /\ last.op = "nav_abort"
    /\ consecutive_nav_failures = CONSECUTIVE_NAV_FAILURES_BEFORE_ABORT

Max(a, b) == IF a > b THEN a ELSE b
\* the first listing page that holds a bid older than target_date
FirstOlderPage == CHOOSE q \in 1..MAX_PAGES : OlderOn(q) /\ \A r \in 1..(q - 1) : ~OlderOn(r)

\* C27: passed_target_date is never reset within an attempt; the loop never stops
\* normally below MIN_PAGES; and when every read, navigation and verification
\* succeeds it stops normally exactly after page max(MIN_PAGES, q), q being the
\* first page with an older record
C27_StopsAtFloorOrFirstOlder ==
    /\ [][(passed_target_date /\ last'.op \notin {"restart", "exhausted"})
             => passed_target_date']_vars
    /\ [](last.op = "stop" => (passed_target_date /\ page_number >= MIN_PAGES))
    /\ []((InLoop /\ clean) => page_number <= Max(MIN_PAGES, FirstOlderPage))
    /\ []((pc = "exited" /\ last.op = "stop" /\ clean)
             => page_number = Max(MIN_PAGES, FirstOlderPage))

\* an older record on page 1 and MIN_PAGES = 2: the loop stopped after page 2
C27_Witness ==
    /\ pc = "exited"
    /\ last.op = "stop"
    /\ clean
    /\ MIN_PAGES = 2
    /\ OlderOn(1)
    /\ page_number = 2

\* C28: while the loop runs, page_number is the index of the listing page the
\* browser displays
C28_PageNumberIsShown == InLoop => page_number = shown

\* the ways the loop ends short of the normal stop
AbortOps == {"nav_abort", "verify_failed", "max_pages"}

\* C29: after the navigation-failure abort, a failed verification or the MAX_PAGES
\* cap the loop has simply been left; unless an exception follows, the next step
\* returns the stats of the locals with no new attempt; an attempt is added only in
\* a step that raised; and the compaction runs only after the stats were returned
C29_AbortReturnsStats ==
    /\ [](last.op \in (AbortOps \cup {"stop"}) => pc = "exited")
    /\ [][(pc = "exited" /\ faults' = faults) =>
             /\ pc' = "returned"
             /\ stats' = StatsOfLocals'
             /\ attempt' = attempt
             /\ raised' = raised
             /\ ndjson' = ndjson]_vars
    /\ [][(attempt' # attempt \/ last'.op \in {"restart", "exhausted"}) =>
             (raised' = raised + 1 /\ faults' = faults + 1)]_vars
    /\ [](pc \in {"finalized", "finalize_failed"} => (stats.returned /\ raised = attempt - 1))

\* the first attempt aborted on navigation failures and its partial log was
\* compacted
C29_Witness ==
    /\ pc = "finalized"
    /\ attempt = 1
    /\ consecutive_nav_failures >= CONSECUTIVE_NAV_FAILURES_BEFORE_ABORT
    /\ ~passed_target_date
    /\ stats.seen_count >= 1
    /\ final.record_count >= 1

\* C30: the object key is a function of (target_date, identifier), and two distinct
\* accepted identifiers never get the same object key
C30_ObjectKeyInjective ==
    /\ \A e \in k_keys : e.key = ObjectKey(target_date, e.id)
    /\ \A e1, e2 \in k_keys : e1.id # e2.id => e1.key # e2.key

====
